---- MODULE Spec2Model ----
(***************************************************************************)
(* The ppm class of src/main.cpp: its three constructors and ppm::read,    *)
(* the decoder of a binary "P6" pixel map.  A file is a sequence of bytes  *)
(* (0..255); std::ifstream, std::getline, std::stringstream >> unsigned    *)
(* and std::vector are modelled by what the C++11 library does.            *)
(***************************************************************************)
EXTENDS Integers, Sequences, FiniteSets, TLC

(* ------------------------------ bounds -------------------------------- *)
MaxDim == 2
MaxPixels == 2
MaxComments == 2
MaxPayload == 7
MaxCtorDim == 7

(* ------------------------- program constants -------------------------- *)
NL == 10
SP == 32
HASH == 35
CharP == 80
Char6 == 54
Digit0 == 48
DefaultMaxColorVal == 255
UIntBits == 32
CharBits == 8

P6 == <<CharP, Char6>>

\* other characters of the model's files: '5', 'x' and 'c'
Char5 == Char6 - 1
CharX == CharP + 40
CharC == HASH + 64

\* a value no byte and no unsigned int takes: a member or a storage slot
\* that nothing has written yet
Uninit == 0 - 1

Max(a, b) == IF a >= b THEN a ELSE b

(* --------------------------- unsigned int ----------------------------- *)
HalfWord == 2 ^ (UIntBits \div 2)

\* unsigned int multiplication: the product modulo 2^UIntBits, computed on
\* half words so that 2^UIntBits itself is never formed
MulU32(a, b) ==
  LET al == a % HalfWord
      ah == a \div HalfWord
      bl == b % HalfWord
      bh == b \div HalfWord
      lo == al * bl
      hi == (ah * bl + al * bh + (lo \div HalfWord)) % HalfWord
  IN  hi * HalfWord + (lo % HalfWord)

(* ------------------------------- char --------------------------------- *)
\* the byte stored in a (signed) char, and (unsigned char) of it
ByteMod == 2 ^ CharBits
ToChar(byte) == IF byte >= ByteMod \div 2 THEN byte - ByteMod ELSE byte
ToUChar(c) == (c + ByteMod) % ByteMod

(* --------------------------- std::vector ------------------------------ *)
\* size elements in a storage of cap slots; mem[k] for k > size is raw
\* storage
EmptyVec == [size |-> 0, cap |-> 0, mem |-> <<>>]

\* resize(n): value-initialises (zero) the appended elements
Resize(v, n) ==
  IF n <= v.size
  THEN [v EXCEPT !.size = n]
  ELSE LET c == IF n <= v.cap THEN v.cap ELSE v.size + Max(v.size, n - v.size)
       IN [size |-> n, cap |-> c,
           mem |-> [k \in 1..c |-> IF k <= v.size THEN v.mem[k]
                                   ELSE IF k <= n THEN 0 ELSE Uninit]]

\* reserve(n): storage for n elements, the size unchanged
Reserve(v, n) ==
  IF n <= v.cap
  THEN v
  ELSE [size |-> v.size, cap |-> n,
        mem |-> [k \in 1..n |-> IF k <= v.size THEN v.mem[k] ELSE Uninit]]

\* v[i] = x, i counted from 0; defined only for i < v.size
InBounds(v, i) == i < v.size
StoreAt(v, i, x) == [v EXCEPT !.mem[i + 1] = x]

\* the vector's elements, as a sequence
Elems(v) == SubSeq(v.mem, 1, v.size)

(* ------------------------------ streams ------------------------------- *)
\* std::ifstream: pos bytes consumed, and the eofbit and failbit
ClosedStream == [open |-> FALSE, pos |-> 0, eof |-> FALSE, fail |-> FALSE]
Good(s) == ~s.eof /\ ~s.fail

RECURSIVE NextNL(_, _)
\* least q >= p with data[q] = NL, or 0
NextNL(data, p) ==
  IF p > Len(data) THEN 0
  ELSE IF data[p] = NL THEN p
  ELSE NextNL(data, p + 1)

\* std::getline(s, line): a stream that is not good fails the sentry and
\* leaves line as it was; otherwise line is erased and filled up to the
\* newline, which is consumed, or up to the end of the data
GetLine(s, data, line) ==
  IF ~Good(s)
  THEN [s |-> [s EXCEPT !.fail = TRUE], line |-> line]
  ELSE LET q == NextNL(data, s.pos + 1)
       IN IF q # 0
          THEN [s |-> [s EXCEPT !.pos = q],
                line |-> SubSeq(data, s.pos + 1, q - 1)]
          ELSE [s |-> [s EXCEPT !.pos = Len(data), !.eof = TRUE,
                                !.fail = (s.pos = Len(data))],
                line |-> SubSeq(data, s.pos + 1, Len(data))]

\* a read that clears channel when no byte is available
ReadByteZeroes(s, data, ch) ==
  IF Good(s) /\ s.pos < Len(data)
  THEN [s |-> [s EXCEPT !.pos = s.pos + 1], ch |-> ToChar(data[s.pos + 1])]
  ELSE [s |-> [s EXCEPT !.fail = TRUE, !.eof = s.eof \/ Good(s)], ch |-> 0]
\* input.read(&channel, 1): one byte into channel; at the end of the data
\* (or on a stream that is not good) channel keeps what it held
ReadByte(s, data, ch) ==
  IF ~Good(s)
  THEN [s |-> [s EXCEPT !.fail = TRUE], ch |-> ch]
  ELSE IF s.pos < Len(data)
       THEN [s |-> [s EXCEPT !.pos = s.pos + 1],
             ch |-> ToChar(data[s.pos + 1])]
       ELSE [s |-> [s EXCEPT !.eof = TRUE, !.fail = TRUE], ch |-> ch]

(* -------------------------- std::stringstream ------------------------- *)
IsSpace(c) == c \in {SP, 9, NL, 11, 12, 13}
IsDigit(c) == c >= Digit0 /\ c <= Digit0 + 9

StringStream(buf) == [buf |-> buf, pos |-> 0, eof |-> FALSE, fail |-> FALSE]

RECURSIVE SkipWs(_, _)
\* least q >= p with buf[q] not white space, or Len(buf) + 1
SkipWs(buf, p) ==
  IF p > Len(buf) THEN p
  ELSE IF IsSpace(buf[p]) THEN SkipWs(buf, p + 1)
  ELSE p

RECURSIVE DigitsEnd(_, _)
\* least q >= p with buf[q] not a digit, or Len(buf) + 1
DigitsEnd(buf, p) ==
  IF p > Len(buf) THEN p
  ELSE IF IsDigit(buf[p]) THEN DigitsEnd(buf, p + 1)
  ELSE p

RECURSIVE DigitsValue(_, _, _, _)
DigitsValue(buf, p, q, acc) ==
  IF p >= q THEN acc
  ELSE DigitsValue(buf, p + 1, q, acc * 10 + (buf[p] - Digit0))

\* ss >> value for an unsigned int: a stream that is not good, or that
\* ends in the white space skipped, leaves value as it was; no digit gives
\* 0 and failbit; digits up to the end of the buffer give eofbit.  (The
\* lines of the model hold no sign and fewer digits than UINT_MAX has.)
ExtractUInt(ss, old) ==
  IF ss.eof \/ ss.fail
  THEN [ss |-> [ss EXCEPT !.fail = TRUE], val |-> old]
  ELSE LET p == SkipWs(ss.buf, ss.pos + 1)
           q == DigitsEnd(ss.buf, p)
       IN IF p > Len(ss.buf)
          THEN [ss |-> [ss EXCEPT !.pos = Len(ss.buf), !.eof = TRUE,
                                  !.fail = TRUE],
                val |-> old]
          ELSE IF q = p
          THEN [ss |-> [ss EXCEPT !.pos = p - 1, !.fail = TRUE], val |-> 0]
          ELSE [ss |-> [ss EXCEPT !.pos = q - 1, !.eof = (q > Len(ss.buf))],
                val |-> DigitsValue(ss.buf, p, q, 0)]

\* the exception mask of a stream on which exceptions() is never called:
\* no state bit throws
ExceptionMask == {}
Throws(ss) == ("failbit" \in ExceptionMask /\ ss.fail)
              \/ ("eofbit" \in ExceptionMask /\ ss.eof)

(* ------------------------------- files -------------------------------- *)
RECURSIVE ToDecimal(_)
\* the decimal digits of n, as bytes
ToDecimal(n) ==
  IF n < 10 THEN <<Digit0 + n>>
  ELSE ToDecimal(n \div 10) \o <<Digit0 + (n % 10)>>

\* the k-th payload byte of the model's files: 10, 20, 30, 200, 210, 220, ...
Sample(k) == (10 * k + (IF k > 3 THEN 160 ELSE 0)) % ByteMod
Payload(n) == [k \in 1..n |-> Sample(k)]

RECURSIVE Lines(_)
\* the lines of ls, each followed by a newline
Lines(ls) ==
  IF ls = <<>> THEN <<>> ELSE Head(ls) \o <<NL>> \o Lines(Tail(ls))

DimPairs == {d \in (0..MaxDim) \X (0..MaxDim) : d[1] * d[2] <= MaxPixels}
DimsLine(d) == ToDecimal(d[1]) \o <<SP>> \o ToDecimal(d[2])
BadDimsLines == {<<CharX>>, ToDecimal(2), ToDecimal(2) \o <<SP, CharX>>, <<>>}
MaxValLine == ToDecimal(DefaultMaxColorVal)
BadMaxValLine == <<CharX>>
CommentTexts == {<<HASH>>, <<HASH, CharC>>}
CommentSeqs == {[k \in 1..n |-> t] : n \in 0..MaxComments, t \in CommentTexts}
BadMagicLines == {<<CharP, Char5>>, <<CharP, Char6, Char6>>, <<>>}

\* what a file of the model was written from.  hdr: "ok" when the header is
\* P6, comment lines, "W H" and a maximum value; ncom comment lines; the
\* payload bytes that follow the header
Meta(hdr, ncom, d, payload) ==
  [hdr |-> hdr, ncom |-> ncom, W |-> d[1], H |-> d[2], payload |-> payload]
NoMeta == Meta("none", 0, <<0, 0>>, <<>>)

Header(magic, coms, dims, maxv) == Lines(<<magic>> \o coms \o <<dims, maxv>>)

\* files with the magic token: every choice of comment lines, dimensions
\* line, maximum-value line and payload length
GoodMagicFiles ==
  {[bytes |-> Header(P6, c, DimsLine(d), m) \o Payload(n),
    meta |-> Meta(IF m = MaxValLine THEN "ok" ELSE "badmax", Len(c), d,
                  Payload(n))] :
     c \in CommentSeqs, d \in DimPairs,
     m \in {MaxValLine, BadMaxValLine}, n \in 0..MaxPayload}
  \cup
  {[bytes |-> Header(P6, c, l, m) \o Payload(n),
    meta |-> Meta("baddims", Len(c), <<0, 0>>, Payload(n))] :
     c \in CommentSeqs, l \in BadDimsLines,
     m \in {MaxValLine, BadMaxValLine}, n \in 0..MaxPayload}

\* files whose first line is not the magic token, otherwise well formed
BadMagicFiles ==
  {[bytes |-> Header(l, <<>>, DimsLine(<<2, 1>>), MaxValLine) \o Payload(6),
    meta |-> NoMeta] : l \in BadMagicLines}

\* files that end inside the header
TruncatedFiles ==
  LET hs == {Header(P6, c, DimsLine(d), MaxValLine) :
               c \in CommentSeqs, d \in DimPairs}
      cuts == UNION {{SubSeq(h, 1, n) : n \in 0..(Len(h) - 1)} : h \in hs}
  IN {[bytes |-> b, meta |-> NoMeta] : b \in cuts}

Files == GoodMagicFiles \cup BadMagicFiles \cup TruncatedFiles

(* ------------------------------ the object ---------------------------- *)
\* a ppm before any constructor body has run
RawPpm ==
  [width |-> Uninit, height |-> Uninit, max_color_val |-> Uninit,
   size |-> Uninit, n_r |-> Uninit, n_c |-> Uninit,
   r |-> EmptyVec, g |-> EmptyVec, b |-> EmptyVec]

\* ppm::init
init(o) == [o EXCEPT !.width = 0, !.height = 0,
                     !.max_color_val = DefaultMaxColorVal]

\* ppm::ppm()
PpmDefault == init(RawPpm)

\* ppm::ppm(_width, _height)
PpmSized(w, h) ==
  LET o == init(RawPpm)
      n == MulU32(w, h)
  IN [o EXCEPT !.width = w, !.height = h, !.n_r = h, !.n_c = w, !.size = n,
               !.r = Resize(o.r, n), !.g = Resize(o.g, n), !.b = Resize(o.b, n)]

(* ------------------------------- state -------------------------------- *)
VARIABLES
  exists,    \* whether the file named by fileName can be opened
  file,      \* its bytes
  meta,      \* what the file was written from
  args,      \* the arguments of ppm(_width, _height)
  obj,       \* the ppm object
  pre,       \* the object as its constructor left it, before read
  stream,    \* read's std::ifstream input
  line,      \* read's std::string line
  channel,   \* read's char channel
  i,         \* read's loop counter
  spin,      \* how many times the comment loop's body has run, modulo 2
  out,       \* the messages written to std::cout
  acquired,  \* how many times a file handle was opened
  released,  \* how many times a file handle was closed
  exit,      \* how read ended
  pc

vars == <<exists, file, meta, args, obj, pre, stream, line, channel, i, spin,
          out, acquired, released, exit, pc>>

\* a char that nothing has written yet
NoChar == ByteMod
\* values an unwritten char may hold
GarbageChars == {0, ToChar(204)}

Locals0 ==
  /\ stream = ClosedStream
  /\ line = <<>>
  /\ channel = NoChar
  /\ i = 0
  /\ spin = 0
  /\ out = <<>>
  /\ acquired = 0
  /\ released = 0
  /\ exit = "none"
  /\ pc = "new"

Init ==
  /\ \/ /\ exists = TRUE
        /\ \E f \in Files : file = f.bytes /\ meta = f.meta
     \/ /\ exists = FALSE
        /\ file = <<>>
        /\ meta = NoMeta
  /\ args = <<0, 0>>
  /\ obj = RawPpm
  /\ pre = RawPpm
  /\ Locals0

(* ---------------------------- constructors ---------------------------- *)
SizedArgs == {d \in DimPairs : d[1] * d[2] > 0}

\* ppm::ppm()
CtorDefault ==
  /\ pc = "new"
  /\ obj' = PpmDefault
  /\ pre' = PpmDefault
  /\ pc' = "idle"
  /\ UNCHANGED <<exists, file, meta, args, stream, line, channel, i, spin,
                 out, acquired, released, exit>>

\* ppm::ppm(fileName): init(), then read(fileName)
CtorFile ==
  /\ pc = "new"
  /\ obj' = init(RawPpm)
  /\ pre' = init(RawPpm)
  /\ pc' = "open"
  /\ UNCHANGED <<exists, file, meta, args, stream, line, channel, i, spin,
                 out, acquired, released, exit>>

\* ppm::ppm(_width, _height)
CtorSized ==
  /\ pc = "new"
  /\ \E d \in SizedArgs :
       /\ args' = d
       /\ obj' = PpmSized(d[1], d[2])
       /\ pre' = PpmSized(d[1], d[2])
  /\ pc' = "idle"
  /\ UNCHANGED <<exists, file, meta, stream, line, channel, i, spin, out,
                 acquired, released, exit>>

\* a caller's read(fileName) on a constructed object
CallRead ==
  /\ pc = "idle"
  /\ pc' = "open"
  /\ UNCHANGED <<exists, file, meta, args, obj, pre, stream, line, channel, i,
                 spin, out, acquired, released, exit>>

(* ------------------------------ ppm::read ----------------------------- *)
\* std::ifstream input(fileName): open, failbit when the open fails
IfstreamOpen(ok) == [ClosedStream EXCEPT !.open = ok, !.fail = ~ok]

\* a test that takes every stream for open
IsOpenAlways(s) == TRUE
\* input.is_open()
IsOpen(s) == s.open

\* input.close(): releases an open handle; failbit when there is none
IfstreamClose(s) ==
  IF s.open THEN [s EXCEPT !.open = FALSE] ELSE [s EXCEPT !.fail = TRUE]

\* a stream object that goes away without closing its handle
DestroyLeaks(s) == s
\* ~ifstream at a return: releases the handle if it is still open
Destroy(s) == [s EXCEPT !.open = FALSE]

Handles(s) == IF s.open THEN 1 ELSE 0

\* a test that accepts every line starting with P6
MagicPrefixOK(l) == Len(l) >= Len(P6) /\ SubSeq(l, 1, Len(P6)) = P6
\* line == "P6", the negation of line 144's test
MagicOK(l) == l = P6

\* a test that takes no line for a comment
NeverComment(l) == FALSE
\* line[0] == '#'; line[0] of an empty string is the null character
IsComment(l) == (IF l = <<>> THEN 0 ELSE l[1]) = HASH

\* a return statement of read, input being s: input is destroyed
Return(s, how) ==
  /\ stream' = Destroy(s)
  /\ released' = released + (Handles(s) - Handles(Destroy(s)))
  /\ exit' = how
  /\ pc' = "done"

\* line 138
Open ==
  /\ pc = "open"
  /\ stream' = IfstreamOpen(exists)
  /\ acquired' = acquired + Handles(IfstreamOpen(exists))
  /\ pc' = "magic"
  /\ UNCHANGED <<exists, file, meta, args, obj, pre, line, channel, i, spin,
                 out, released, exit>>

\* lines 140-147 and 189-191
ReadMagic ==
  /\ pc = "magic"
  /\ IF IsOpen(stream)
     THEN LET gl == GetLine(stream, file, line)
          IN /\ line' = gl.line
             /\ IF MagicOK(gl.line)
                THEN /\ stream' = gl.s
                     /\ pc' = "first"
                     /\ UNCHANGED <<out, released, exit>>
                ELSE /\ out' = Append(out, "format")
                     /\ Return(gl.s, "magic")
     ELSE /\ out' = Append(out, "open")
          /\ pc' = "close"
          /\ UNCHANGED <<stream, line, released, exit>>
  /\ UNCHANGED <<exists, file, meta, args, obj, pre, channel, i, spin,
                 acquired>>

\* line 148
ReadFirstLine ==
  /\ pc = "first"
  /\ LET gl == GetLine(stream, file, line)
     IN stream' = gl.s /\ line' = gl.line
  /\ pc' = "comments"
  /\ UNCHANGED <<exists, file, meta, args, obj, pre, channel, i, spin, out,
                 acquired, released, exit>>

\* lines 149-151, one test of the while condition
CommentLoop ==
  /\ pc = "comments"
  /\ IF IsComment(line)
     THEN /\ LET gl == GetLine(stream, file, line)
             IN stream' = gl.s /\ line' = gl.line
          /\ spin' = (spin + 1) % 2
          /\ pc' = "comments"
     ELSE /\ pc' = "dims"
          /\ spin' = 0
          /\ UNCHANGED <<stream, line>>
  /\ UNCHANGED <<exists, file, meta, args, obj, pre, channel, i, out,
                 acquired, released, exit>>

\* lines 152-163
ParseDims ==
  /\ pc = "dims"
  /\ LET e1 == ExtractUInt(StringStream(line), obj.width)
         e2 == ExtractUInt(e1.ss, obj.height)
     IN IF Throws(e1.ss)
        THEN /\ obj' = [obj EXCEPT !.width = e1.val]
             /\ out' = Append(out, "header")
             /\ Return(stream, "dims")
        ELSE IF Throws(e2.ss)
        THEN /\ obj' = [obj EXCEPT !.width = e1.val, !.height = e2.val]
             /\ out' = Append(out, "header")
             /\ Return(stream, "dims")
        ELSE /\ obj' = [obj EXCEPT !.width = e1.val, !.height = e2.val,
                                   !.n_r = e2.val, !.n_c = e1.val]
             /\ pc' = "maxval"
             /\ UNCHANGED <<stream, out, released, exit>>
  /\ UNCHANGED <<exists, file, meta, args, pre, line, channel, i, spin,
                 acquired>>

\* lines 164-173
ReadMaxVal ==
  /\ pc = "maxval"
  /\ LET gl == GetLine(stream, file, line)
         e == ExtractUInt(StringStream(gl.line), obj.max_color_val)
     IN /\ line' = gl.line
        /\ obj' = [obj EXCEPT !.max_color_val = e.val]
        /\ IF Throws(e.ss)
           THEN /\ out' = Append(out, "header")
                /\ Return(gl.s, "maxval")
           ELSE /\ stream' = gl.s
                /\ pc' = "reserve"
                /\ UNCHANGED <<out, released, exit>>
  /\ UNCHANGED <<exists, file, meta, args, pre, channel, i, spin, acquired>>

\* lines 174-178, and the loop's i = 0
ReserveAll ==
  /\ pc = "reserve"
  /\ LET n == MulU32(obj.width, obj.height)
     IN obj' = [obj EXCEPT !.size = n,
                           !.r = Reserve(obj.r, n),
                           !.g = Reserve(obj.g, n),
                           !.b = Reserve(obj.b, n)]
  /\ channel' = NoChar
  /\ i' = 0
  /\ pc' = "loop"
  /\ UNCHANGED <<exists, file, meta, args, pre, stream, line, spin, out,
                 acquired, released, exit>>

\* the value read from channel: an unwritten char holds some garbage
Held(ch, garbage) == IF ch = NoChar THEN garbage ELSE ch

\* lines 180-187, one iteration.  v[i] with i >= v.size() is undefined: the
\* store lands in the reserved storage, or a checked operator[] aborts
LoopBody ==
  /\ pc = "loop"
  /\ i < obj.size
  /\ \E garbage \in GarbageChars, ub \in {"store", "abort"} :
       LET r1 == ReadByte(stream, file, channel)
           c1 == Held(r1.ch, garbage)
           r2 == ReadByte(r1.s, file, c1)
           c2 == r2.ch
           r3 == ReadByte(r2.s, file, c2)
           c3 == r3.ch
           defined == InBounds(obj.r, i) /\ InBounds(obj.g, i)
                      /\ InBounds(obj.b, i)
       IN IF ~defined /\ ub = "abort"
          THEN /\ stream' = r1.s
               /\ channel' = c1
               /\ exit' = "abort"
               /\ pc' = "aborted"
               /\ UNCHANGED <<obj, i>>
          ELSE /\ obj' = [obj EXCEPT !.r = StoreAt(obj.r, i, ToUChar(c1)),
                                     !.g = StoreAt(obj.g, i, ToUChar(c2)),
                                     !.b = StoreAt(obj.b, i, ToUChar(c3))]
               /\ stream' = r3.s
               /\ channel' = c3
               /\ i' = i + 1
               /\ UNCHANGED <<exit, pc>>
  /\ UNCHANGED <<exists, file, meta, args, pre, line, spin, out, acquired,
                 released>>

\* line 180, the loop condition false
LoopExit ==
  /\ pc = "loop"
  /\ ~(i < obj.size)
  /\ pc' = "close"
  /\ UNCHANGED <<exists, file, meta, args, obj, pre, stream, line, channel, i,
                 spin, out, acquired, released, exit>>

\* lines 192-193: input.close(), then the end of the function
Close ==
  /\ pc = "close"
  /\ stream' = Destroy(IfstreamClose(stream))
  /\ released' = released + (Handles(stream) - Handles(IfstreamClose(stream)))
                 + (Handles(IfstreamClose(stream))
                    - Handles(Destroy(IfstreamClose(stream))))
  /\ exit' = "end"
  /\ pc' = "done"
  /\ UNCHANGED <<exists, file, meta, args, obj, pre, line, channel, i, spin,
                 out, acquired>>

Next ==
  \/ CtorDefault
  \/ CtorFile
  \/ CtorSized
  \/ CallRead
  \/ Open
  \/ ReadMagic
  \/ ReadFirstLine
  \/ CommentLoop
  \/ ParseDims
  \/ ReadMaxVal
  \/ ReserveAll
  \/ LoopBody
  \/ LoopExit
  \/ Close

Spec == Init /\ [][Next]_vars

\* read is one sequential call: a step that can be taken is taken
LiveSpec == Spec /\ WF_vars(Next)

(* ------------------- ppm(_width, _height) on its own ------------------ *)
CtorArgs == ((0..MaxCtorDim) \X (0..MaxCtorDim)) \cup {<<HalfWord, HalfWord>>}

InitCtor ==
  /\ exists = FALSE
  /\ file = <<>>
  /\ meta = NoMeta
  /\ args \in CtorArgs
  /\ obj = RawPpm
  /\ pre = RawPpm
  /\ Locals0

\* ppm::ppm(_width, _height) with the arguments args
CtorSizedAt ==
  /\ pc = "new"
  /\ obj' = PpmSized(args[1], args[2])
  /\ pre' = PpmSized(args[1], args[2])
  /\ pc' = "sized"
  /\ UNCHANGED <<exists, file, meta, args, stream, line, channel, i, spin,
                 out, acquired, released, exit>>

NextCtor == CtorSizedAt

SpecCtor == InitCtor /\ [][NextCtor]_vars

(* ------------------------------- claims ------------------------------- *)
\* the input is well formed: header ok and at least 3*W*H payload bytes
WellFormed ==
  exists /\ meta.hdr = "ok" /\ Len(meta.payload) >= 3 * meta.W * meta.H
\* the header is ok and the payload is shorter than 3*W*H bytes
ShortPayload ==
  exists /\ meta.hdr = "ok" /\ Len(meta.payload) < 3 * meta.W * meta.H
Completed == pc = "done" /\ exit = "end"
FirstLine(data) ==
  LET q == NextNL(data, 1)
  IN IF q = 0 THEN data ELSE SubSeq(data, 1, q - 1)
\* the default state of a buffer
IsDefault(o) ==
  /\ o.width = 0
  /\ o.height = 0
  /\ o.max_color_val = DefaultMaxColorVal
  /\ Elems(o.r) = <<>>
  /\ Elems(o.g) = <<>>
  /\ Elems(o.b) = <<>>
\* the slot that the j-th payload byte (j from 0) is stored to
Slot(o, j) ==
  LET v == IF j % 3 = 0 THEN o.r ELSE IF j % 3 = 1 THEN o.g ELSE o.b
  IN v.mem[(j \div 3) + 1]

\* C1: after ppm(fileName), or read on a default-constructed buffer,
\* completes on a well-formed input, r, g and b each have exactly W*H
\* elements.
C1_ShapeAfterRead ==
  (WellFormed /\ Completed /\ pre = PpmDefault) =>
     /\ obj.r.size = meta.W * meta.H
     /\ obj.g.size = meta.W * meta.H
     /\ obj.b.size = meta.W * meta.H

\* C2: after ppm(fileName), or read on a default-constructed buffer,
\* completes on a well-formed input with payload p, for every i < W*H the
\* elements are r[i] = p[3i], g[i] = p[3i+1], b[i] = p[3i+2].
C2_SampleFidelity ==
  (WellFormed /\ Completed /\ pre = PpmDefault) =>
     \A k \in 0..(meta.W * meta.H - 1) :
        /\ InBounds(obj.r, k) /\ obj.r.mem[k + 1] = meta.payload[3 * k + 1]
        /\ InBounds(obj.g, k) /\ obj.g.mem[k + 1] = meta.payload[3 * k + 2]
        /\ InBounds(obj.b, k) /\ obj.b.mem[k + 1] = meta.payload[3 * k + 3]

\* C3: when the first line of the input is not exactly P6, read reports a
\* format error and returns having consumed nothing beyond that line, and
\* the buffer is as the constructor left it: in its default state when it
\* was default-constructed.
C3_MagicRejection ==
  (exists /\ FirstLine(file) # P6
     /\ pc \notin {"new", "idle", "open", "magic"}) =>
     /\ pc = "done"
     /\ exit = "magic"
     /\ out = <<"format">>
     /\ stream.pos <= Len(FirstLine(file)) + 1
     /\ obj = pre
     /\ (pre = PpmDefault => IsDefault(obj))
C3_Witness ==
  /\ exists /\ FirstLine(file) # P6
  /\ pc = "done" /\ exit = "magic"
  /\ pre = PpmDefault
  /\ stream.pos < Len(file)

\* the vector v after reserve(n) and the stores of the payload bytes p at
\* offset off of each of the n groups
Decoded(v, n, p, off) ==
  LET w == Reserve(v, n)
  IN [w EXCEPT !.mem = [k \in 1..w.cap |->
                          IF k <= n THEN p[3 * (k - 1) + off] ELSE w.mem[k]]]
\* the buffer o after a decode of W, H and the payload p
DecodedPpm(o, W, H, p) ==
  [o EXCEPT !.width = W, !.height = H, !.n_r = H, !.n_c = W,
            !.max_color_val = DefaultMaxColorVal, !.size = W * H,
            !.r = Decoded(o.r, W * H, p, 1),
            !.g = Decoded(o.g, W * H, p, 2),
            !.b = Decoded(o.b, W * H, p, 3)]

\* C4: on a well-formed input the result of read does not depend on the
\* comment lines between the magic line and the dimensions line: when the
\* comment loop is left, line is the dimensions line and the stream stands
\* right after it, and the buffer read returns is the one determined by
\* W, H, the maximum value and the payload alone.
C4_CommentsSkipped ==
  WellFormed =>
     /\ pc = "dims" =>
          /\ line = DimsLine(<<meta.W, meta.H>>)
          /\ Good(stream)
          /\ stream.pos = Len(file) - Len(meta.payload) - Len(MaxValLine) - 1
          /\ obj = pre
     /\ pc = "done" =>
          /\ exit = "end"
          /\ obj = DecodedPpm(pre, meta.W, meta.H, meta.payload)
C4_Witness ==
  /\ WellFormed /\ Completed
  /\ meta.ncom >= 1
  /\ meta.W * meta.H > 0
  /\ obj.width = meta.W

\* C5: when the dimensions line cannot be parsed as two unsigned integers,
\* read reports a header-format error and returns: it does not go on to
\* the max-value line, the size or the payload.
C5_DimsErrorAborts ==
  (exists /\ meta.hdr = "baddims") =>
     /\ pc \notin {"maxval", "reserve", "loop", "close", "aborted"}
     /\ (pc = "done" => exit = "dims" /\ out = <<"header">>)

\* C6: when the file cannot be opened, read reports an open failure, takes
\* no parsing step, and leaves the buffer as the constructor left it: in
\* its default state when it was default-constructed.
C6_OpenFailure ==
  ~exists =>
     /\ pc \notin {"first", "comments", "dims", "maxval", "reserve", "loop",
                   "aborted"}
     /\ (pc \in {"close", "done"} =>
           /\ out = <<"open">>
           /\ line = <<>>
           /\ stream.pos = 0
           /\ acquired = 0
           /\ obj = pre
           /\ (pre = PpmDefault => IsDefault(obj)))
     /\ (pc = "done" => exit = "end")
C6_Witness ==
  ~exists /\ pc = "done" /\ out = <<"open">> /\ pre = PpmDefault

\* C7: ppm(W, H) yields width = W, height = H, size = W*H and r, g, b of
\* W*H elements, all zero, for all W and H.  (size = W*H is stated by
\* division, so that W*H is never formed.)
C7_SizedConstruction ==
  pc = "sized" =>
     LET W == args[1]
         H == args[2]
         IsProduct(n) == IF W = 0 THEN n = 0 ELSE n % W = 0 /\ n \div W = H
         Zeros(v) == IsProduct(v.size) /\ \A k \in 1..v.size : v.mem[k] = 0
     IN /\ obj.width = W
        /\ obj.height = H
        /\ IsProduct(obj.size)
        /\ Zeros(obj.r) /\ Zeros(obj.g) /\ Zeros(obj.b)

\* C8: whenever read has returned, the handle it opened has been released,
\* once, and the stream is not open; nothing is released that was not
\* opened.
C8_StreamReleased ==
  /\ released <= acquired
  /\ acquired <= 1
  /\ pc = "done" =>
       /\ ~stream.open
       /\ released = acquired
       /\ acquired = (IF exists THEN 1 ELSE 0)
C8_Witness ==
  pc = "done" /\ exit = "magic" /\ acquired = 1 /\ released = 1

\* C9, as claimed: when the payload is shorter than 3*W*H bytes, read
\* reports nothing, the bytes available are stored at their positions, and
\* every remaining entry is as it was before the payload loop.
C9_ShortPayloadKeepsDefault ==
  (ShortPayload /\ Completed) =>
     /\ out = <<>>
     /\ \A j \in 0..(3 * meta.W * meta.H - 1) :
          Slot(obj, j) =
            IF j < Len(meta.payload)
            THEN meta.payload[j + 1]
            ELSE Slot([pre EXCEPT !.r = Reserve(pre.r, meta.W * meta.H),
                                  !.g = Reserve(pre.g, meta.W * meta.H),
                                  !.b = Reserve(pre.b, meta.W * meta.H)], j)

\* C9, amended: when the payload is shorter than 3*W*H bytes, read reports
\* nothing; each store of the payload loop for which a byte was available
\* stores that byte, and each store for which none was available stores
\* what channel still holds: the last payload byte, or some byte when the
\* payload is empty.
C9_ShortPayloadStoresStale ==
  (ShortPayload /\ pc \in {"loop", "close", "done"}) =>
     /\ out = <<>>
     /\ (pc = "done" => exit = "end" /\ i = meta.W * meta.H)
     /\ \A j \in 0..(3 * i - 1) :
          IF j < Len(meta.payload)
          THEN Slot(obj, j) = meta.payload[j + 1]
          ELSE IF Len(meta.payload) > 0
          THEN Slot(obj, j) = meta.payload[Len(meta.payload)]
          ELSE Slot(obj, j) \in 0..(ByteMod - 1)
C9_Witness ==
  /\ ShortPayload /\ Completed
  /\ Len(meta.payload) > 0
  /\ i = meta.W * meta.H
  /\ Slot(obj, 3 * i - 1) = meta.payload[Len(meta.payload)]

\* C10: read terminates on every finite input.
C10_ReadTerminates == <>(pc \in {"done", "aborted"})

====
